---- MODULE Spec2Model ----
(***************************************************************************)
(* Model of src/src/Semaphore.ts: a reader-writer lock kept in one 32-bit  *)
(* word of a SharedArrayBuffer.  Every handle (Semaphore object) runs in    *)
(* its own execution context; the contexts interleave at the granularity   *)
(* of the Atomics operations (compareExchange, wait, notify), which are    *)
(* the only accesses to the shared word.  Statements that touch only the   *)
(* private fields or locals of a handle are folded into the step of the    *)
(* Atomics operation that precedes them.                                   *)
(***************************************************************************)
EXTENDS Integers, FiniteSets, TLC

\* Number of Semaphore objects that may wrap the same ArrayBuffer.
NumHandles == 3

Handles == 1..NumHandles

\* Number of them in use under fair scheduling, under outside interference, and
\* when contexts may be terminated.
FairHandles == 2
ForcedHandles == 2
GapHandles == 2

\* private static WRITE_LOCKED / UNLOCKED
WRITE_LOCKED == -1
UNLOCKED == 0

\* Values an outside party may store into the word through the public ptr.
ForcedValues == {-2, WRITE_LOCKED, UNLOCKED, 1, 2}

VARIABLES
    word,           \* int32ArrayView[BYTE_OFFSET], shared by all handles
    handles,        \* the Semaphore objects constructed so far
    haveWriteLock,  \* __haveWriteLock of each handle
    haveReadLock,   \* __haveReadLock of each handle
    op,             \* the method each handle is running, or ran last
    pc,             \* where in that method the handle's context stands
    lockState,      \* the local lockState of the running method; UNLOCKED once
                    \* the method no longer reads it
    outcome,        \* how the last call of each handle ended
    accepting,      \* whether callers still start new acquisitions (always
                    \* TRUE unless StopAcquiring is part of the specification)
    terminated      \* the handles whose execution context was terminated (always
                    \* empty unless terminate is part of the specification)

vars == <<word, handles, haveWriteLock, haveReadLock, op, pc, lockState, outcome, accepting, terminated>>

\* Atomics.compareExchange(view, 0, expected, replacement): the word after it.
\* (Its return value is the word before it.)  The word is a reader count of at
\* most one per handle, or a small forced value, so the 32-bit wrap of the
\* stored value is never reached.
compareExchange(expected, replacement) ==
    IF word = expected THEN replacement ELSE word

\* An Atomics.wait that sleeps whatever the word holds.
waitSleeps_Always(value) == TRUE

\* Atomics.wait(view, 0, value) puts the caller to sleep iff the word holds value;
\* without a timeout it returns only when a notify wakes it.
waitSleeps(value) == word = value

\* Atomics.notify(view, 0) wakes every context asleep in Atomics.wait on the word.
\* A woken readLock resets its local lockState to UNLOCKED (line 164) and goes
\* back to its compareExchange; a woken writeLock goes back to its compareExchange,
\* which overwrites lockState before anything reads it.
\* A terminated context is no longer among the waiters.
notifyWakes(g) == pc[g] = "asleep" /\ g \notin terminated

notifyPc == [g \in Handles |-> IF notifyWakes(g) THEN "cas" ELSE pc[g]]

notifyLockState == [g \in Handles |-> IF notifyWakes(g) THEN UNLOCKED ELSE lockState[g]]

TypeOK ==
    /\ word \in Int
    /\ handles \subseteq Handles
    /\ haveWriteLock \in [Handles -> BOOLEAN]
    /\ haveReadLock \in [Handles -> BOOLEAN]
    /\ op \in [Handles -> {"none", "writeLock", "writeUnlock", "readLock", "readUnlock"}]
    /\ pc \in [Handles -> {"idle", "cas", "wait", "asleep", "notify"}]
    /\ lockState \in [Handles -> Int]
    /\ outcome \in [Handles -> {"none", "ok", "ProtocolViolation", "Corruption"}]
    /\ accepting \in BOOLEAN
    /\ terminated \subseteq handles

\* Semaphore.new(): a zero-filled 4-byte SharedArrayBuffer and its first handle.
Init ==
    /\ word = UNLOCKED
    /\ handles = {1}
    /\ haveWriteLock = [h \in Handles |-> FALSE]
    /\ haveReadLock = [h \in Handles |-> FALSE]
    /\ op = [h \in Handles |-> "none"]
    /\ pc = [h \in Handles |-> "idle"]
    /\ lockState = [h \in Handles |-> UNLOCKED]
    /\ outcome = [h \in Handles |-> "none"]
    /\ accepting = TRUE
    /\ terminated = {}

\* Semaphore.from(ptr) with a constructor that stores UNLOCKED into the word,
\* as Semaphore.new's fresh buffer has it.
from_ResetsWord(h) ==
    /\ h \notin handles
    /\ handles' = handles \cup {h}
    /\ word' = UNLOCKED
    /\ UNCHANGED <<haveWriteLock, haveReadLock, op, pc, lockState, outcome, accepting, terminated>>

\* Semaphore.from(ptr): one more handle on the same buffer.
from(h) ==
    /\ h \notin handles
    /\ handles' = handles \cup {h}
    /\ UNCHANGED <<word, haveWriteLock, haveReadLock, op, pc, lockState, outcome, accepting, terminated>>

\* A method of handle h can be called: the handle exists and runs no other method.
Callable(h) == h \in handles /\ pc[h] = "idle"

\* The call of method m on h throws before touching the word.
\* "Cannot ..." errors are ProtocolViolation, "Semaphore corrupted: ..." are Corruption.
Throws(h, m, kind) ==
    /\ op' = [op EXCEPT ![h] = m]
    /\ outcome' = [outcome EXCEPT ![h] = kind]
    /\ UNCHANGED <<word, handles, haveWriteLock, haveReadLock, pc, lockState, accepting, terminated>>

\* The call of method m on h passes its checks and reaches its first compareExchange.
Enters(h, m, assumed) ==
    /\ op' = [op EXCEPT ![h] = m]
    /\ outcome' = [outcome EXCEPT ![h] = "none"]
    /\ pc' = [pc EXCEPT ![h] = "cas"]
    /\ lockState' = [lockState EXCEPT ![h] = assumed]
    /\ UNCHANGED <<word, handles, haveWriteLock, haveReadLock, accepting, terminated>>

----------------------------------------------------------------------------
\* writeLock(), lines 87-113

\* writeLock without the haveReadLock check.
writeLock_NoReadCheck(h) ==
    /\ Callable(h)
    /\ accepting
    /\ IF haveWriteLock[h] THEN Throws(h, "writeLock", "ProtocolViolation")
       ELSE Enters(h, "writeLock", UNLOCKED)

writeLock(h) ==
    /\ Callable(h)
    /\ accepting
    /\ IF haveReadLock[h] THEN Throws(h, "writeLock", "ProtocolViolation")
       ELSE IF haveWriteLock[h] THEN Throws(h, "writeLock", "ProtocolViolation")
       ELSE Enters(h, "writeLock", UNLOCKED)

\* writeLock with a plain store of WRITE_LOCKED in place of the compareExchange.
writeLockCAS_PlainStore(h) ==
    /\ op[h] = "writeLock" /\ pc[h] = "cas"
    /\ word' = WRITE_LOCKED
    /\ pc' = [pc EXCEPT ![h] = "notify"]
    /\ lockState' = [lockState EXCEPT ![h] = UNLOCKED]
    /\ UNCHANGED <<handles, haveWriteLock, haveReadLock, op, outcome, accepting, terminated>>

\* writeLock with `if` in place of `while`: the compareExchange is not retried.
writeLockCAS_NoRetry(h) ==
    /\ op[h] = "writeLock" /\ pc[h] = "cas"
    /\ word' = compareExchange(UNLOCKED, WRITE_LOCKED)
    /\ pc' = [pc EXCEPT ![h] = "notify"]
    /\ lockState' = [lockState EXCEPT ![h] = word]
    /\ UNCHANGED <<handles, haveWriteLock, haveReadLock, op, outcome, accepting, terminated>>

\* lines 96-103: compareExchange(UNLOCKED, WRITE_LOCKED); the loop ends iff it saw UNLOCKED
writeLockCAS(h) ==
    /\ op[h] = "writeLock" /\ pc[h] = "cas"
    /\ word' = compareExchange(UNLOCKED, WRITE_LOCKED)
    /\ IF word = UNLOCKED
       THEN pc' = [pc EXCEPT ![h] = "notify"]
       ELSE pc' = [pc EXCEPT ![h] = "wait"]
    /\ lockState' = [lockState EXCEPT ![h] = word]
    /\ UNCHANGED <<handles, haveWriteLock, haveReadLock, op, outcome, accepting, terminated>>

\* lines 105-109: Atomics.wait(view, 0, lockState); the next compareExchange
\* overwrites lockState
writeLockWait(h) ==
    /\ op[h] = "writeLock" /\ pc[h] = "wait"
    /\ IF waitSleeps(lockState[h])
       THEN /\ pc' = [pc EXCEPT ![h] = "asleep"]
            /\ UNCHANGED lockState
       ELSE /\ pc' = [pc EXCEPT ![h] = "cas"]
            /\ lockState' = [lockState EXCEPT ![h] = UNLOCKED]
    /\ UNCHANGED <<word, handles, haveWriteLock, haveReadLock, op, outcome, accepting, terminated>>

\* The variant of writeLock without the Atomics.notify of line 111.
writeLockNotify_NoNotify(h) ==
    /\ op[h] = "writeLock" /\ pc[h] = "notify"
    /\ pc' = [pc EXCEPT ![h] = "idle"]
    /\ lockState' = [lockState EXCEPT ![h] = UNLOCKED]
    /\ haveWriteLock' = [haveWriteLock EXCEPT ![h] = TRUE]
    /\ outcome' = [outcome EXCEPT ![h] = "ok"]
    /\ UNCHANGED <<word, handles, haveReadLock, op, accepting, terminated>>

\* lines 111-112: notify, then __haveWriteLock = true
writeLockNotify(h) ==
    /\ op[h] = "writeLock" /\ pc[h] = "notify"
    /\ pc' = [notifyPc EXCEPT ![h] = "idle"]
    /\ lockState' = [notifyLockState EXCEPT ![h] = UNLOCKED]
    /\ haveWriteLock' = [haveWriteLock EXCEPT ![h] = TRUE]
    /\ outcome' = [outcome EXCEPT ![h] = "ok"]
    /\ UNCHANGED <<word, handles, haveReadLock, op, accepting, terminated>>

----------------------------------------------------------------------------
\* writeUnlock(), lines 116-136

writeUnlock(h) ==
    /\ Callable(h)
    /\ IF ~haveWriteLock[h] THEN Throws(h, "writeUnlock", "ProtocolViolation")
       ELSE IF haveReadLock[h] THEN Throws(h, "writeUnlock", "Corruption")
       ELSE Enters(h, "writeUnlock", UNLOCKED)

\* writeUnlock with a plain store of UNLOCKED in place of the compareExchange.
writeUnlockCAS_PlainStore(h) ==
    /\ op[h] = "writeUnlock" /\ pc[h] = "cas"
    /\ word' = UNLOCKED
    /\ pc' = [pc EXCEPT ![h] = "notify"]
    /\ UNCHANGED <<handles, haveWriteLock, haveReadLock, op, lockState, outcome, accepting, terminated>>

\* lines 124-133: one compareExchange(WRITE_LOCKED, UNLOCKED), throw if it saw anything else
writeUnlockCAS(h) ==
    /\ op[h] = "writeUnlock" /\ pc[h] = "cas"
    /\ word' = compareExchange(WRITE_LOCKED, UNLOCKED)
    /\ IF word = WRITE_LOCKED
       THEN /\ pc' = [pc EXCEPT ![h] = "notify"]
            /\ UNCHANGED outcome
       ELSE /\ pc' = [pc EXCEPT ![h] = "idle"]
            /\ outcome' = [outcome EXCEPT ![h] = "Corruption"]
    /\ UNCHANGED <<handles, haveWriteLock, haveReadLock, op, lockState, accepting, terminated>>

\* writeUnlock without its Atomics.notify.
writeUnlockNotify_NoNotify(h) ==
    /\ op[h] = "writeUnlock" /\ pc[h] = "notify"
    /\ pc' = [pc EXCEPT ![h] = "idle"]
    /\ haveWriteLock' = [haveWriteLock EXCEPT ![h] = FALSE]
    /\ outcome' = [outcome EXCEPT ![h] = "ok"]
    /\ UNCHANGED <<word, handles, haveReadLock, op, lockState, accepting, terminated>>

\* writeUnlock that forgets to clear __haveWriteLock.
writeUnlockNotify_KeepsFlag(h) ==
    /\ op[h] = "writeUnlock" /\ pc[h] = "notify"
    /\ pc' = [notifyPc EXCEPT ![h] = "idle"]
    /\ lockState' = [notifyLockState EXCEPT ![h] = UNLOCKED]
    /\ outcome' = [outcome EXCEPT ![h] = "ok"]
    /\ UNCHANGED <<word, handles, haveWriteLock, haveReadLock, op, accepting, terminated>>

\* lines 134-135: notify, then __haveWriteLock = false
writeUnlockNotify(h) ==
    /\ op[h] = "writeUnlock" /\ pc[h] = "notify"
    /\ pc' = [notifyPc EXCEPT ![h] = "idle"]
    /\ lockState' = [notifyLockState EXCEPT ![h] = UNLOCKED]
    /\ haveWriteLock' = [haveWriteLock EXCEPT ![h] = FALSE]
    /\ outcome' = [outcome EXCEPT ![h] = "ok"]
    /\ UNCHANGED <<word, handles, haveReadLock, op, accepting, terminated>>

----------------------------------------------------------------------------
\* readLock(), lines 139-171

\* readLock without the haveReadLock check.
readLock_NoReadCheck(h) ==
    /\ Callable(h)
    /\ accepting
    /\ IF haveWriteLock[h] THEN Throws(h, "readLock", "ProtocolViolation")
       ELSE Enters(h, "readLock", UNLOCKED)

\* readLock without the haveWriteLock check.
readLock_NoWriteFlagCheck(h) ==
    /\ Callable(h)
    /\ accepting
    /\ IF haveReadLock[h] THEN Throws(h, "readLock", "ProtocolViolation")
       ELSE Enters(h, "readLock", UNLOCKED)

readLock(h) ==
    /\ Callable(h)
    /\ accepting
    /\ IF haveWriteLock[h] THEN Throws(h, "readLock", "ProtocolViolation")
       ELSE IF haveReadLock[h] THEN Throws(h, "readLock", "ProtocolViolation")
       ELSE Enters(h, "readLock", UNLOCKED)

\* readLock without the `if (lockState === -1)` block: -1 is adopted like a count.
readLockCAS_NoWriteCheck(h) ==
    /\ op[h] = "readLock" /\ pc[h] = "cas"
    /\ word' = compareExchange(lockState[h], lockState[h] + 1)
    /\ IF word = lockState[h]
       THEN /\ pc' = [pc EXCEPT ![h] = "notify"]
            /\ lockState' = [lockState EXCEPT ![h] = UNLOCKED]
       ELSE /\ lockState' = [lockState EXCEPT ![h] = word]
            /\ UNCHANGED pc
    /\ UNCHANGED <<handles, haveWriteLock, haveReadLock, op, outcome, accepting, terminated>>

\* readLock that calls Atomics.wait after every missed compareExchange.
readLockCAS_WaitsOnAnyMiss(h) ==
    /\ op[h] = "readLock" /\ pc[h] = "cas"
    /\ word' = compareExchange(lockState[h], lockState[h] + 1)
    /\ IF word = lockState[h]
       THEN /\ pc' = [pc EXCEPT ![h] = "notify"]
            /\ lockState' = [lockState EXCEPT ![h] = UNLOCKED]
       ELSE /\ lockState' = [lockState EXCEPT ![h] = word]
            /\ pc' = [pc EXCEPT ![h] = "wait"]
    /\ UNCHANGED <<handles, haveWriteLock, haveReadLock, op, outcome, accepting, terminated>>

\* readLock with a plain store of lockState + 1 once the word was seen not to be -1.
readLockCAS_PlainStore(h) ==
    /\ op[h] = "readLock" /\ pc[h] = "cas"
    /\ IF word = WRITE_LOCKED
       THEN /\ pc' = [pc EXCEPT ![h] = "wait"]
            /\ lockState' = [lockState EXCEPT ![h] = word]
            /\ UNCHANGED word
       ELSE /\ word' = lockState[h] + 1
            /\ pc' = [pc EXCEPT ![h] = "notify"]
            /\ lockState' = [lockState EXCEPT ![h] = UNLOCKED]
    /\ UNCHANGED <<handles, haveWriteLock, haveReadLock, op, outcome, accepting, terminated>>

\* lines 149-157: compareExchange(lockState, lockState + 1); on a miss adopt the
\* value seen, and go to wait if that value is -1.  After a hit lockState is
\* not read again.
readLockCAS(h) ==
    /\ op[h] = "readLock" /\ pc[h] = "cas"
    /\ word' = compareExchange(lockState[h], lockState[h] + 1)
    /\ IF word = lockState[h]
       THEN /\ pc' = [pc EXCEPT ![h] = "notify"]
            /\ lockState' = [lockState EXCEPT ![h] = UNLOCKED]
       ELSE /\ lockState' = [lockState EXCEPT ![h] = word]
            /\ pc' = [pc EXCEPT ![h] = IF word = -1 THEN "wait" ELSE "cas"]
    /\ UNCHANGED <<handles, haveWriteLock, haveReadLock, op, outcome, accepting, terminated>>

\* lines 158-164: Atomics.wait(view, 0, WRITE_LOCKED), then lockState = UNLOCKED
readLockWait(h) ==
    /\ op[h] = "readLock" /\ pc[h] = "wait"
    /\ IF waitSleeps(WRITE_LOCKED)
       THEN /\ pc' = [pc EXCEPT ![h] = "asleep"]
            /\ UNCHANGED lockState
       ELSE /\ pc' = [pc EXCEPT ![h] = "cas"]
            /\ lockState' = [lockState EXCEPT ![h] = UNLOCKED]
    /\ UNCHANGED <<word, handles, haveWriteLock, haveReadLock, op, outcome, accepting, terminated>>

\* lines 169-170: notify, then __haveReadLock = true
readLockNotify(h) ==
    /\ op[h] = "readLock" /\ pc[h] = "notify"
    /\ pc' = [notifyPc EXCEPT ![h] = "idle"]
    /\ lockState' = [notifyLockState EXCEPT ![h] = UNLOCKED]
    /\ haveReadLock' = [haveReadLock EXCEPT ![h] = TRUE]
    /\ outcome' = [outcome EXCEPT ![h] = "ok"]
    /\ UNCHANGED <<word, handles, haveWriteLock, op, accepting, terminated>>

----------------------------------------------------------------------------
\* readUnlock(), lines 174-200

\* readUnlock without the haveReadLock check.
readUnlock_NoReadCheck(h) ==
    /\ Callable(h)
    /\ IF haveWriteLock[h] THEN Throws(h, "readUnlock", "Corruption")
       ELSE Enters(h, "readUnlock", 1)

readUnlock(h) ==
    /\ Callable(h)
    /\ IF ~haveReadLock[h] THEN Throws(h, "readUnlock", "ProtocolViolation")
       ELSE IF haveWriteLock[h] THEN Throws(h, "readUnlock", "Corruption")
       ELSE Enters(h, "readUnlock", 1)

\* readUnlock without the WRITE_LOCKED check: -1 is adopted like a count.
readUnlockCAS_NoWriteCheck(h) ==
    /\ op[h] = "readUnlock" /\ pc[h] = "cas"
    /\ word' = compareExchange(lockState[h], lockState[h] - 1)
    /\ IF word = lockState[h]
       THEN /\ pc' = [pc EXCEPT ![h] = "notify"]
            /\ lockState' = [lockState EXCEPT ![h] = UNLOCKED]
       ELSE /\ lockState' = [lockState EXCEPT ![h] = word]
            /\ UNCHANGED pc
    /\ UNCHANGED <<handles, haveWriteLock, haveReadLock, op, outcome, accepting, terminated>>

\* lines 184-197: compareExchange(lockState, lockState - 1); on a miss throw if the
\* value seen is WRITE_LOCKED, else adopt it and try again.  After a hit
\* lockState is not read again.
readUnlockCAS(h) ==
    /\ op[h] = "readUnlock" /\ pc[h] = "cas"
    /\ word' = compareExchange(lockState[h], lockState[h] - 1)
    /\ IF word = lockState[h]
       THEN /\ pc' = [pc EXCEPT ![h] = "notify"]
            /\ lockState' = [lockState EXCEPT ![h] = UNLOCKED]
            /\ UNCHANGED outcome
       ELSE IF word = WRITE_LOCKED
       THEN /\ pc' = [pc EXCEPT ![h] = "idle"]
            /\ lockState' = [lockState EXCEPT ![h] = UNLOCKED]
            /\ outcome' = [outcome EXCEPT ![h] = "Corruption"]
       ELSE /\ lockState' = [lockState EXCEPT ![h] = word]
            /\ UNCHANGED <<pc, outcome>>
    /\ UNCHANGED <<handles, haveWriteLock, haveReadLock, op, accepting, terminated>>

\* readUnlock without the Atomics.notify of line 198.
readUnlockNotify_NoNotify(h) ==
    /\ op[h] = "readUnlock" /\ pc[h] = "notify"
    /\ pc' = [pc EXCEPT ![h] = "idle"]
    /\ lockState' = [lockState EXCEPT ![h] = UNLOCKED]
    /\ haveReadLock' = [haveReadLock EXCEPT ![h] = FALSE]
    /\ outcome' = [outcome EXCEPT ![h] = "ok"]
    /\ UNCHANGED <<word, handles, haveWriteLock, op, accepting, terminated>>

\* lines 198-199: notify, then __haveReadLock = false
readUnlockNotify(h) ==
    /\ op[h] = "readUnlock" /\ pc[h] = "notify"
    /\ pc' = [notifyPc EXCEPT ![h] = "idle"]
    /\ lockState' = [notifyLockState EXCEPT ![h] = UNLOCKED]
    /\ haveReadLock' = [haveReadLock EXCEPT ![h] = FALSE]
    /\ outcome' = [outcome EXCEPT ![h] = "ok"]
    /\ UNCHANGED <<word, handles, haveWriteLock, op, accepting, terminated>>

----------------------------------------------------------------------------
\* The lock used only through its four methods.

\* What may happen on handle h: its construction, a call, or the next Atomics
\* operation of the method running on it.
HandleNext(h) ==
    \/ from(h)
    \/ writeLock(h)
    \/ writeLockCAS(h)
    \/ writeLockWait(h)
    \/ writeLockNotify(h)
    \/ writeUnlock(h)
    \/ writeUnlockCAS(h)
    \/ writeUnlockNotify(h)
    \/ readLock(h)
    \/ readLockCAS(h)
    \/ readLockWait(h)
    \/ readLockNotify(h)
    \/ readUnlock(h)
    \/ readUnlockCAS(h)
    \/ readUnlockNotify(h)

Next == \E h \in Handles : HandleNext(h)

Spec == Init /\ [][Next]_vars

----------------------------------------------------------------------------
\* The lock under fair scheduling.  Every execution context keeps running: a
\* method that is not asleep in Atomics.wait takes its next step.  A caller
\* that holds a lock calls the matching release.  Callers may stop starting
\* acquisitions at any time.

\* The callers start no further writeLock or readLock.
StopAcquiring ==
    /\ accepting
    /\ accepting' = FALSE
    /\ UNCHANGED <<word, handles, haveWriteLock, haveReadLock, op, pc, lockState, outcome, terminated>>

\* The next Atomics operation of the method running on h.
Step(h) ==
    \/ writeLockCAS(h) \/ writeLockWait(h) \/ writeLockNotify(h)
    \/ writeUnlockCAS(h) \/ writeUnlockNotify(h)
    \/ readLockCAS(h) \/ readLockWait(h) \/ readLockNotify(h)
    \/ readUnlockCAS(h) \/ readUnlockNotify(h)

\* The caller of h releases the lock h holds.
Release(h) ==
    \/ haveWriteLock[h] /\ writeUnlock(h)
    \/ haveReadLock[h] /\ readUnlock(h)

NextFair == (\E h \in 1..FairHandles : HandleNext(h)) \/ StopAcquiring

FairSpec ==
    /\ Init
    /\ [][NextFair]_vars
    /\ \A h \in 1..FairHandles : WF_vars(Step(h))
    /\ \A h \in 1..FairHandles : WF_vars(Release(h))

----------------------------------------------------------------------------
\* The lock next to its variant whose writeLock issues no notify: each return
\* of a writeLock either wakes the sleepers (the code) or leaves them asleep
\* (the variant).  The executions of the code and those of the variant are
\* among the executions of this specification, fair ones among its fair ones.

StepEither(h) == Step(h) \/ writeLockNotify_NoNotify(h)

NextEither ==
    \/ \E h \in 1..FairHandles : HandleNext(h)
    \/ \E h \in 1..FairHandles : writeLockNotify_NoNotify(h)
    \/ StopAcquiring

FairSpecEither ==
    /\ Init
    /\ [][NextEither]_vars
    /\ \A h \in 1..FairHandles : WF_vars(StepEither(h))
    /\ \A h \in 1..FairHandles : WF_vars(Release(h))

\* The lock as a function from one state to its successors, so that the set of
\* states each variant can reach is a value.  A state is the record of what the
\* steps of the lock read: the word, the handles and their flags, and of each
\* method that is running its name, position and lockState.  How the last call
\* on a handle ended is not part of it.  wakes tells whether writeLock calls
\* notify.
State ==
    [word |-> word, handles |-> handles,
     haveWriteLock |-> haveWriteLock, haveReadLock |-> haveReadLock,
     op |-> [h \in Handles |-> IF pc[h] = "idle" THEN "none" ELSE op[h]],
     pc |-> pc, lockState |-> lockState]

\* The call of method m on h throws: nothing the lock reads has changed.
ThrowsIn(s, h, m, kind) == s

\* The call of method m on h passes its checks.
EntersIn(s, h, m, assumed) ==
    [s EXCEPT !.op[h] = m, !.pc[h] = "cas", !.lockState[h] = assumed]

\* The method of h returns: with notifies, every sleeper goes back to its
\* compareExchange.
ReturnsIn(s, h, notifies) ==
    [s EXCEPT
        !.pc = [g \in Handles |->
                   IF g = h THEN "idle"
                   ELSE IF notifies /\ s.pc[g] = "asleep" THEN "cas" ELSE s.pc[g]],
        !.lockState = [g \in Handles |->
                   IF g = h \/ (notifies /\ s.pc[g] = "asleep") THEN UNLOCKED
                   ELSE s.lockState[g]],
        !.op[h] = "none"]

\* Semaphore.from and the four calls on h, lines 82-93, 116-122, 139-145, 174-180.
CallsIn(s, h) ==
    IF h \notin s.handles THEN {[s EXCEPT !.handles = @ \cup {h}]}
    ELSE IF s.pc[h] # "idle" THEN {}
    ELSE LET holds == s.haveWriteLock[h] \/ s.haveReadLock[h] IN
         { IF holds THEN ThrowsIn(s, h, "writeLock", "ProtocolViolation")
           ELSE EntersIn(s, h, "writeLock", UNLOCKED),
           IF holds THEN ThrowsIn(s, h, "readLock", "ProtocolViolation")
           ELSE EntersIn(s, h, "readLock", UNLOCKED),
           IF ~s.haveWriteLock[h] THEN ThrowsIn(s, h, "writeUnlock", "ProtocolViolation")
           ELSE IF s.haveReadLock[h] THEN ThrowsIn(s, h, "writeUnlock", "Corruption")
           ELSE EntersIn(s, h, "writeUnlock", UNLOCKED),
           IF ~s.haveReadLock[h] THEN ThrowsIn(s, h, "readUnlock", "ProtocolViolation")
           ELSE IF s.haveWriteLock[h] THEN ThrowsIn(s, h, "readUnlock", "Corruption")
           ELSE EntersIn(s, h, "readUnlock", 1) }

\* The next Atomics operation of writeLock on h, lines 96-112.
WriteLockIn(s, h, wakes) ==
    CASE s.pc[h] = "cas" ->
            [s EXCEPT !.word = IF s.word = UNLOCKED THEN WRITE_LOCKED ELSE @,
                      !.pc[h] = IF s.word = UNLOCKED THEN "notify" ELSE "wait",
                      !.lockState[h] = s.word]
      [] s.pc[h] = "wait" ->
            IF s.word = s.lockState[h] THEN [s EXCEPT !.pc[h] = "asleep"]
            ELSE [s EXCEPT !.pc[h] = "cas", !.lockState[h] = UNLOCKED]
      [] s.pc[h] = "notify" ->
            [ReturnsIn(s, h, wakes) EXCEPT !.haveWriteLock[h] = TRUE]

\* The next Atomics operation of writeUnlock on h, lines 124-135.
WriteUnlockIn(s, h) ==
    CASE s.pc[h] = "cas" ->
            IF s.word = WRITE_LOCKED THEN [s EXCEPT !.word = UNLOCKED, !.pc[h] = "notify"]
            ELSE [s EXCEPT !.pc[h] = "idle", !.op[h] = "none"]
      [] s.pc[h] = "notify" ->
            [ReturnsIn(s, h, TRUE) EXCEPT !.haveWriteLock[h] = FALSE]

\* The next Atomics operation of readLock on h, lines 149-170.
ReadLockIn(s, h) ==
    CASE s.pc[h] = "cas" ->
            IF s.word = s.lockState[h]
            THEN [s EXCEPT !.word = @ + 1, !.pc[h] = "notify", !.lockState[h] = UNLOCKED]
            ELSE [s EXCEPT !.lockState[h] = s.word,
                           !.pc[h] = IF s.word = WRITE_LOCKED THEN "wait" ELSE "cas"]
      [] s.pc[h] = "wait" ->
            IF s.word = WRITE_LOCKED THEN [s EXCEPT !.pc[h] = "asleep"]
            ELSE [s EXCEPT !.pc[h] = "cas", !.lockState[h] = UNLOCKED]
      [] s.pc[h] = "notify" ->
            [ReturnsIn(s, h, TRUE) EXCEPT !.haveReadLock[h] = TRUE]

\* The next Atomics operation of readUnlock on h, lines 184-199.
ReadUnlockIn(s, h) ==
    CASE s.pc[h] = "cas" ->
            IF s.word = s.lockState[h]
            THEN [s EXCEPT !.word = @ - 1, !.pc[h] = "notify", !.lockState[h] = UNLOCKED]
            ELSE IF s.word = WRITE_LOCKED
            THEN [s EXCEPT !.pc[h] = "idle", !.lockState[h] = UNLOCKED, !.op[h] = "none"]
            ELSE [s EXCEPT !.lockState[h] = s.word]
      [] s.pc[h] = "notify" ->
            [ReturnsIn(s, h, TRUE) EXCEPT !.haveReadLock[h] = FALSE]

\* What may happen on handle h in state s.
HandleNextIn(s, h, wakes) ==
    IF h \notin s.handles \/ s.pc[h] = "idle" THEN CallsIn(s, h)
    ELSE IF s.pc[h] = "asleep" THEN {}
    ELSE CASE s.op[h] = "writeLock" -> {WriteLockIn(s, h, wakes)}
           [] s.op[h] = "writeUnlock" -> {WriteUnlockIn(s, h)}
           [] s.op[h] = "readLock" -> {ReadLockIn(s, h)}
           [] s.op[h] = "readUnlock" -> {ReadUnlockIn(s, h)}

NextIn(s, wakes) == UNION {HandleNextIn(s, h, wakes) : h \in 1..FairHandles}

\* The states reachable from those in seen, of which only those in fresh still
\* have successors to add.
RECURSIVE ReachableFrom(_, _, _)
ReachableFrom(seen, fresh, wakes) ==
    IF fresh = {} THEN seen
    ELSE LET found == UNION {NextIn(s, wakes) : s \in fresh} \ seen
         IN  ReachableFrom(seen \cup found, found, wakes)

Reachable(s, wakes) == ReachableFrom({s}, {s}, wakes)

\* What a set of states shows of the word and the flags.
WordAndFlags(states) == {<<s.word, s.haveWriteLock, s.haveReadLock>> : s \in states}

----------------------------------------------------------------------------
\* The lock with outside interference: besides the four methods, anyone who has
\* the buffer (the public ptr) may store a value into the word directly.

\* new Int32Array(semaphore.ptr)[0] = v
ForceWord(v) ==
    /\ word' = v
    /\ UNCHANGED <<handles, haveWriteLock, haveReadLock, op, pc, lockState, outcome, accepting, terminated>>

NextForced == (\E h \in 1..ForcedHandles : HandleNext(h)) \/ \E v \in ForcedValues : ForceWord(v)

SpecForced == Init /\ [][NextForced]_vars

----------------------------------------------------------------------------
\* The lock when execution contexts may be terminated (worker.terminate()): the
\* context takes no further step, whatever it holds; nothing else changes.

\* terminate with the clean-up the test 'should clear locks on worker
\* termination' asks for: the word goes back to UNLOCKED.
terminate_ClearsLock(h) ==
    /\ h \in handles \ terminated
    /\ terminated' = terminated \cup {h}
    /\ word' = IF haveWriteLock[h] \/ haveReadLock[h] THEN UNLOCKED ELSE word
    /\ UNCHANGED <<handles, haveWriteLock, haveReadLock, op, pc, lockState, outcome, accepting>>

terminate(h) ==
    /\ h \in handles \ terminated
    /\ terminated' = terminated \cup {h}
    /\ UNCHANGED <<word, handles, haveWriteLock, haveReadLock, op, pc, lockState, outcome, accepting>>

NextGap ==
    \/ \E h \in (1..GapHandles) \ terminated : HandleNext(h)
    \/ \E h \in 1..GapHandles : terminate(h)

SpecGap == Init /\ [][NextGap]_vars

----------------------------------------------------------------------------
\* The lock under fair scheduling with callers that starve a writer.  Handle 1
\* (the one Semaphore.new made) is the writer's; handles 2 and 3 are two
\* readers'.  A reader without the lock acquires it; a reader with the lock
\* releases it, but only while another reader holds it too; the writer calls
\* writeLock once a reader holds the lock.  Every method runs on as the code
\* has it.

StarveReaders == {2, 3}

StarveReadLock(r) == ~haveReadLock[r] /\ readLock(r)

\* A reader that releases whether or not another reader holds the lock.
StarveReadUnlock_NoOverlap(r) == haveReadLock[r] /\ readUnlock(r)

StarveReadUnlock(r) ==
    /\ haveReadLock[r]
    /\ \E g \in StarveReaders \ {r} : haveReadLock[g] /\ pc[g] = "idle"
    /\ readUnlock(r)

StarveWriteLock ==
    /\ \E r \in StarveReaders : haveReadLock[r]
    /\ writeLock(1)

\* The next Atomics operation of the method running on h, whichever it is.
StarveStep(h) == IF pc[h] = "idle" THEN FALSE ELSE Step(h)

NextStarve ==
    \/ \E r \in StarveReaders : from(r)
    \/ \E r \in StarveReaders : StarveReadLock(r)
    \/ \E r \in StarveReaders : StarveReadUnlock(r)
    \/ StarveWriteLock
    \/ \E h \in Handles : StarveStep(h)

StarveSpec ==
    /\ Init
    /\ [][NextStarve]_vars
    /\ \A h \in Handles : WF_vars(Step(h))
    /\ \A r \in StarveReaders : WF_vars(from(r)) /\ WF_vars(StarveReadLock(r))
    /\ \A r \in StarveReaders : SF_vars(StarveReadUnlock(r))
    /\ WF_vars(StarveWriteLock)

----------------------------------------------------------------------------
\* Notions the properties below are stated in.

\* h is between its successful 0 -> -1 compareExchange in writeLock and its
\* successful -1 -> 0 compareExchange in writeUnlock.
WriteOutstanding(h) ==
    \/ op[h] = "writeLock" /\ pc[h] = "notify"
    \/ haveWriteLock[h] /\ ~(op[h] = "writeUnlock" /\ pc[h] = "notify")

\* h is between its successful compareExchange in readLock and its successful
\* compareExchange in readUnlock.
ReadOutstanding(h) ==
    \/ op[h] = "readLock" /\ pc[h] = "notify"
    \/ haveReadLock[h] /\ ~(op[h] = "readUnlock" /\ pc[h] = "notify")

Writers == {h \in Handles : WriteOutstanding(h)}
Readers == {h \in Handles : ReadOutstanding(h)}

\* No method is running on any handle.
Quiescent == \A h \in Handles : pc[h] = "idle"

\* h is inside Atomics.wait, or about to call it.
Waiting(h) == pc[h] \in {"wait", "asleep"}

\* No handle but h has ever called a method.
Solo(h) == \A g \in Handles \ {h} : op[g] = "none"

----------------------------------------------------------------------------
\* C1: at most one handle is between its successful 0 -> -1 compareExchange in
\* writeLock and its successful -1 -> 0 compareExchange in writeUnlock, and the
\* word is -1 exactly when there is one such outstanding write acquisition.
C1_WriterMutualExclusion ==
    /\ Cardinality(Writers) <= 1
    /\ word = WRITE_LOCKED <=> Cardinality(Writers) = 1

\* One handle holds the write lock while another one sleeps in writeLock.
C1_Witness ==
    \E h, g \in Handles :
        /\ haveWriteLock[h] /\ WriteOutstanding(h)
        /\ op[g] = "writeLock" /\ pc[g] = "asleep"

\* C2: an outstanding write acquisition and an outstanding read acquisition never
\* coexist; the compareExchange that ends readLock's loop replaces some n >= 0 by
\* n + 1 and the one that ends writeLock's loop replaces 0 by -1; a readLock that
\* got past its checks never fails, and it does not return while a write
\* acquisition is outstanding.
C2_ExclusiveState == Writers = {} \/ Readers = {}

C2_ExclusiveStep ==
    \A h \in Handles :
        /\ (readLockCAS(h) /\ pc'[h] = "notify") => (word >= 0 /\ word' = word + 1)
        /\ (writeLockCAS(h) /\ pc'[h] = "notify") => (word = UNLOCKED /\ word' = WRITE_LOCKED)
        /\ (op[h] = "readLock" /\ pc[h] # "idle") => outcome'[h] \in {"none", "ok"}
        /\ readLockNotify(h) => Writers = {}

C3_Original ==
    /\ word # WRITE_LOCKED => word = Cardinality(Readers)
    /\ Quiescent => word = Cardinality({h \in Handles : haveReadLock[h]})

\* C3 as amended: whenever the word is not -1 it equals the number of outstanding
\* read acquisitions, and in every state where no method is running and the word
\* is not -1 it equals the number of handles whose haveReadLock flag is true.
C3_ReaderCount ==
    /\ word # WRITE_LOCKED => word = Cardinality(Readers)
    /\ (Quiescent /\ word # WRITE_LOCKED) =>
           word = Cardinality({h \in Handles : haveReadLock[h]})

\* Every handle holds a read lock at once.
C3_Witness ==
    /\ Quiescent
    /\ \A h \in Handles : haveReadLock[h]
    /\ word = NumHandles

\* C4: the word is never less than -1: it is -1, 0 or a positive reader count
\* that does not exceed the number of handles.
C4_WordRange == word >= -1 /\ word <= Cardinality(handles)

\* The word has come back to 0 through a readUnlock while another handle was
\* in the middle of readLock.
C4_Witness ==
    \E h, g \in Handles :
        /\ op[h] = "readUnlock" /\ outcome[h] = "ok" /\ pc[h] = "idle"
        /\ op[g] = "readLock" /\ pc[g] = "cas" /\ lockState[g] > word
        /\ word = UNLOCKED

\* C5: writeLock or readLock called on a handle one of whose flags is true throws
\* ProtocolViolation in the calling step itself: the word and both flags are
\* unchanged and the handle is not left inside the method (so it cannot block).
C5_Step ==
    \A h \in Handles :
        ((writeLock(h) \/ readLock(h)) /\ (haveWriteLock[h] \/ haveReadLock[h])) =>
            /\ outcome'[h] = "ProtocolViolation"
            /\ pc'[h] = "idle"
            /\ word' = word
            /\ haveWriteLock' = haveWriteLock
            /\ haveReadLock' = haveReadLock

C5_AcquireMisuse == [][C5_Step]_vars

\* A writeLock on a handle holding a read lock has thrown.
C5_Witness ==
    \E h \in Handles :
        /\ haveReadLock[h] /\ op[h] = "writeLock"
        /\ outcome[h] = "ProtocolViolation" /\ pc[h] = "idle"

\* C6: writeUnlock on a handle whose haveWriteLock is false, and readUnlock on a
\* handle whose haveReadLock is false, throw ProtocolViolation whatever the word
\* holds, and leave the word and the handle's flags unchanged.
C6_Step ==
    \A h \in Handles :
        ((writeUnlock(h) /\ ~haveWriteLock[h]) \/ (readUnlock(h) /\ ~haveReadLock[h])) =>
            /\ outcome'[h] = "ProtocolViolation"
            /\ pc'[h] = "idle"
            /\ word' = word
            /\ haveWriteLock' = haveWriteLock
            /\ haveReadLock' = haveReadLock

C6_ReleaseMisuse == [][C6_Step]_vars

\* While one handle holds the write lock, a writeUnlock on a second handle and a
\* readUnlock on a third one have thrown.
C6_Witness ==
    \E h, g, k \in Handles :
        /\ haveWriteLock[k] /\ word = WRITE_LOCKED
        /\ op[h] = "writeUnlock" /\ ~haveWriteLock[h]
        /\ outcome[h] = "ProtocolViolation" /\ pc[h] = "idle"
        /\ op[g] = "readUnlock" /\ ~haveReadLock[g]
        /\ outcome[g] = "ProtocolViolation" /\ pc[g] = "idle"

\* C7: on a lock no other handle uses, no method of the handle waits or throws
\* Corruption, only a call that breaks the protocol throws ProtocolViolation,
\* every compareExchange succeeds at once, and between calls the word is -1 if
\* the handle holds the write lock, 1 if it holds the read lock, and 0 with both
\* flags false otherwise; a release that returned leaves the word 0.
C7_SoloState ==
    \A h \in Handles :
        Solo(h) =>
            /\ ~Waiting(h)
            /\ outcome[h] # "Corruption"
            /\ ~(haveWriteLock[h] /\ haveReadLock[h])
            /\ pc[h] = "idle" =>
                   word = (IF haveWriteLock[h] THEN WRITE_LOCKED
                           ELSE IF haveReadLock[h] THEN 1 ELSE UNLOCKED)
            /\ (pc[h] = "idle" /\ outcome[h] = "ok") =>
                   /\ op[h] = "writeLock" => (word = WRITE_LOCKED /\ haveWriteLock[h])
                   /\ op[h] = "readLock" => (word = 1 /\ haveReadLock[h])
                   /\ op[h] \in {"writeUnlock", "readUnlock"} =>
                          (word = UNLOCKED /\ ~haveWriteLock[h] /\ ~haveReadLock[h])

C7_SoloStep ==
    \A h \in Handles :
        Solo(h) =>
            /\ (outcome'[h] = "ProtocolViolation" /\ outcome'[h] # outcome[h]) =>
                   \/ op'[h] \in {"writeLock", "readLock"}
                        /\ (haveWriteLock[h] \/ haveReadLock[h])
                   \/ op'[h] = "writeUnlock" /\ ~haveWriteLock[h]
                   \/ op'[h] = "readUnlock" /\ ~haveReadLock[h]
            /\ (pc[h] = "cas" /\ <<pc[h], lockState[h], word>>' # <<pc[h], lockState[h], word>>) =>
                   pc'[h] = "notify"

C7_SingleHandleRoundTrip == []C7_SoloState /\ [][C7_SoloStep]_vars

\* The only handle in use is back from a readUnlock that returned.
C7_Witness ==
    \E h \in Handles :
        /\ Solo(h) /\ pc[h] = "idle" /\ word = UNLOCKED
        /\ op[h] = "readUnlock" /\ outcome[h] = "ok"
        /\ ~haveWriteLock[h] /\ ~haveReadLock[h]

\* C8: under fair scheduling, if callers release what they acquire and start
\* only finitely many acquisitions, every writeLock and readLock that got past
\* its checks returns.
C8_Acquiring(h) == op[h] \in {"writeLock", "readLock"} /\ pc[h] # "idle"

C8_Returned(h) == pc[h] = "idle" /\ outcome[h] = "ok"

C8_BlockedAcquisitionsComplete ==
    (<>~accepting) => \A h \in Handles : C8_Acquiring(h) ~> C8_Returned(h)

\* No more acquisitions will start, and a readLock is asleep while another handle
\* holds the write lock.
C8_Witness ==
    /\ ~accepting
    /\ \E h, g \in Handles :
        /\ op[h] = "readLock" /\ pc[h] = "asleep"
        /\ haveWriteLock[g] /\ pc[g] = "idle" /\ word = WRITE_LOCKED

\* C9 as stated: readLock calls Atomics.wait only after its compareExchange saw
\* -1, and in an execution in which no handle ever acquires the write lock every
\* readLock returns, and does so without ever reaching Atomics.wait.
C9_WaitOnlyOnWriteLocked ==
    \A h \in Handles :
        (op[h] = "readLock" /\ pc[h] # "wait" /\ pc'[h] = "wait") =>
            (readLockCAS(h) /\ word = WRITE_LOCKED)

C9_ReadLocking(h) == op[h] = "readLock" /\ pc[h] # "idle"

C9_NeverWaits == \A h \in Handles : op[h] = "readLock" => ~Waiting(h)

C9_Original ==
    /\ [][C9_WaitOnlyOnWriteLocked]_vars
    /\ ([](Writers = {})) =>
           /\ []C9_NeverWaits
           /\ \A h \in Handles : C9_ReadLocking(h) ~> C8_Returned(h)

\* C9 as amended: readLock calls Atomics.wait only after its compareExchange saw
\* -1; in an execution in which no handle ever acquires the write lock no
\* readLock ever reaches Atomics.wait, and every readLock returns provided only
\* finitely many acquisitions are started.
C9_ReadersDoNotBlockReaders ==
    /\ [][C9_WaitOnlyOnWriteLocked]_vars
    /\ ([](Writers = {})) =>
           /\ []C9_NeverWaits
           /\ (<>~accepting) => \A h \in Handles : C9_ReadLocking(h) ~> C8_Returned(h)

\* No handle has used the write lock; one handle holds a read lock and a second
\* one has just raised the word from 1 to 2.
C9_Witness ==
    /\ word = 2
    /\ \A k \in Handles : op[k] \in {"none", "readLock"}
    /\ \E h, g \in Handles :
        /\ haveReadLock[h] /\ pc[h] = "idle"
        /\ op[g] = "readLock" /\ pc[g] = "notify"

\* C10: when readUnlock's compareExchange sees -1 in the word (put there behind
\* the back of a handle whose haveReadLock is true), the call throws Corruption
\* in that very step, the word stays -1 and haveReadLock stays true.
C10_Step ==
    \A h \in Handles :
        (readUnlockCAS(h) /\ word = WRITE_LOCKED) =>
            /\ outcome'[h] = "Corruption"
            /\ pc'[h] = "idle"
            /\ word' = WRITE_LOCKED
            /\ haveReadLock[h] /\ haveReadLock'[h]
            /\ haveWriteLock' = haveWriteLock

C10_ReadCorruptionDetected == [][C10_Step]_vars

\* A readUnlock has thrown Corruption on a word forced to -1.
C10_Witness ==
    \E h \in Handles :
        /\ op[h] = "readUnlock" /\ outcome[h] = "Corruption" /\ pc[h] = "idle"
        /\ haveReadLock[h]
        /\ word = WRITE_LOCKED
        /\ Writers = {}

\* C11: when writeUnlock's compareExchange sees anything other than -1 in the
\* word, the call throws Corruption in that very step (the compareExchange is
\* not tried again), the word keeps its value and haveWriteLock stays true.
C11_Step ==
    \A h \in Handles :
        (writeUnlockCAS(h) /\ word # WRITE_LOCKED) =>
            /\ outcome'[h] = "Corruption"
            /\ pc'[h] = "idle"
            /\ word' = word
            /\ haveWriteLock[h] /\ haveWriteLock'[h]
            /\ haveReadLock' = haveReadLock

C11_WriteCorruptionDetected == [][C11_Step]_vars

\* A writeUnlock has thrown Corruption on a word forced to a reader count.
C11_Witness ==
    \E h \in Handles :
        /\ op[h] = "writeUnlock" /\ outcome[h] = "Corruption" /\ pc[h] = "idle"
        /\ haveWriteLock[h]
        /\ word = 1
        /\ Readers = {}

\* C12: once the context of a handle is terminated while its write acquisition
\* is outstanding, the word stays -1 and no writeLock or readLock of a live handle
\* ever gets past its loop or returns; once one is terminated while its read
\* acquisition is outstanding, the word stays at 1 or more and no writeLock of a
\* live handle ever gets past its loop or returns.
C12_AbandonedWrite == \E h \in terminated : WriteOutstanding(h)

C12_AbandonedRead == \E h \in terminated : ReadOutstanding(h)

C12_WriteLocking(g) == op[g] = "writeLock" /\ pc[g] # "idle"

C12_State ==
    /\ C12_AbandonedWrite => word = WRITE_LOCKED
    /\ C12_AbandonedRead => word >= 1

C12_Step ==
    /\ C12_AbandonedWrite =>
           /\ C12_AbandonedWrite'
           /\ \A g \in Handles \ terminated :
                  C8_Acquiring(g) => (C8_Acquiring(g)' /\ pc'[g] # "notify")
    /\ C12_AbandonedRead =>
           /\ C12_AbandonedRead'
           /\ \A g \in Handles \ terminated :
                  C12_WriteLocking(g) => (C12_WriteLocking(g)' /\ pc'[g] # "notify")

C12_TerminationGap == []C12_State /\ [][C12_Step]_vars

\* The holder of the write lock was terminated and another handle is asleep in
\* an acquisition.
C12_Witness ==
    \E h \in terminated, g \in Handles \ terminated :
        /\ haveWriteLock[h] /\ WriteOutstanding(h)
        /\ C8_Acquiring(g) /\ pc[g] = "asleep"

\* C13: no handle ever has haveWriteLock and haveReadLock both true, whatever is
\* stored into the word from outside; so no call of writeUnlock or readUnlock
\* throws Corruption from its flag checks (lines 120-122 and 178-180).
C13_FlagsExclusive == \A h \in Handles : ~(haveWriteLock[h] /\ haveReadLock[h])

C13_Step ==
    \A h \in Handles :
        (writeUnlock(h) \/ readUnlock(h)) => outcome'[h] # "Corruption"

C13_FlagExclusion == []C13_FlagsExclusive /\ [][C13_Step]_vars

\* One handle holds the write flag and had its readLock refused, while another
\* holds the read flag and had its writeLock refused.
C13_Witness ==
    \E h, g \in Handles :
        /\ haveWriteLock[h] /\ op[h] = "readLock" /\ outcome[h] = "ProtocolViolation"
        /\ haveReadLock[g] /\ op[g] = "writeLock" /\ outcome[g] = "ProtocolViolation"

\* C14: every compareExchange of readUnlock that changes the word replaces some
\* n >= 1 by n - 1, whatever was stored into the word from outside: readUnlock
\* never writes a negative value, and never gets past its loop on a word below 1.
C14_Step ==
    \A h \in Handles :
        readUnlockCAS(h) =>
            /\ word' # word => (word >= 1 /\ word' = word - 1)
            /\ word < 1 => pc'[h] # "notify"

C14_ReadUnlockDecrementsPositive == [][C14_Step]_vars

\* C16: Semaphore.from leaves the word and every handle's flags as they are,
\* whatever the word holds; a handle on which no method was called yet has both
\* flags false, and writeUnlock or readUnlock called on it throws
\* ProtocolViolation and leaves the word alone, locked or not.
C16_FreshState ==
    \A h \in Handles : op[h] = "none" => (~haveWriteLock[h] /\ ~haveReadLock[h])

C16_Step ==
    \A h \in Handles :
        /\ from(h) =>
               /\ word' = word
               /\ haveWriteLock' = haveWriteLock /\ haveReadLock' = haveReadLock
               /\ ~haveWriteLock'[h] /\ ~haveReadLock'[h]
        /\ (op[h] = "none" /\ (writeUnlock(h) \/ readUnlock(h))) =>
               /\ outcome'[h] = "ProtocolViolation"
               /\ pc'[h] = "idle"
               /\ word' = word

C16_AttachHasNoEffect == []C16_FreshState /\ [][C16_Step]_vars

\* While one handle holds the write lock and another holds nothing after a
\* refused readUnlock, a third was attached and its writeUnlock was refused.
C16_Witness ==
    \E k, g, h \in handles :
        /\ haveWriteLock[k] /\ word = WRITE_LOCKED
        /\ g # 1 /\ op[g] = "readUnlock" /\ outcome[g] = "ProtocolViolation"
        /\ h # 1 /\ h # g /\ op[h] = "writeUnlock" /\ outcome[h] = "ProtocolViolation"

\* C18: whenever a handle is asleep in the wait of writeLock or readLock and the
\* word differs from the value it waits on, another handle is between its
\* successful compareExchange and its notify; in particular the word is never 0
\* with a handle asleep and no notify still to come.
C18_Asleep(h) == pc[h] = "asleep"

C18_WaitedValue(h) == IF op[h] = "writeLock" THEN lockState[h] ELSE WRITE_LOCKED

C18_NotifyPending(h) == \E g \in Handles \ {h} : pc[g] = "notify"

C18_NoLostWakeup ==
    \A h \in Handles :
        C18_Asleep(h) =>
            /\ word # C18_WaitedValue(h) => C18_NotifyPending(h)
            /\ word = UNLOCKED => C18_NotifyPending(h)

\* A writer sleeps on the count of one reader, and that reader has taken the
\* word back to 0 and not yet notified.
C18_Witness ==
    \E h, g \in Handles :
        /\ C18_Asleep(h) /\ op[h] = "writeLock" /\ lockState[h] = 1
        /\ word = UNLOCKED
        /\ op[g] = "readUnlock" /\ pc[g] = "notify"

\* C19: when the word starts at 0 and only the four operations change it, no
\* writeUnlock or readUnlock ever throws Corruption; a handle with haveWriteLock
\* true finds the word at -1 when it starts writeUnlock and at its
\* compareExchange, and a handle with haveReadLock true finds the word at 1 or
\* more when it starts readUnlock and at each of its compareExchanges.
C19_State ==
    \A h \in Handles :
        /\ outcome[h] # "Corruption"
        /\ (op[h] = "writeUnlock" /\ pc[h] = "cas") => word = WRITE_LOCKED
        /\ (op[h] = "readUnlock" /\ pc[h] = "cas") => word >= 1

C19_Step ==
    \A h \in Handles :
        /\ (writeUnlock(h) /\ haveWriteLock[h]) => (word = WRITE_LOCKED /\ pc'[h] = "cas")
        /\ (readUnlock(h) /\ haveReadLock[h]) => (word >= 1 /\ pc'[h] = "cas")
        /\ (writeUnlockCAS(h) \/ readUnlockCAS(h)) => outcome'[h] # "Corruption"

C19_NoCorruptionWithoutInterference == []C19_State /\ [][C19_Step]_vars

\* Two readers are releasing at once, one past its compareExchange and one
\* about to retry its own, after a third handle's misuse call was refused.
C19_Witness ==
    \E h, g, k \in Handles :
        /\ op[h] = "readUnlock" /\ pc[h] = "notify"
        /\ op[g] = "readUnlock" /\ pc[g] = "cas" /\ lockState[g] # word
        /\ outcome[k] = "ProtocolViolation"
        /\ word = 1

\* C17: there are fairly scheduled executions of the lock in which every reader
\* releases each read lock it gets, the word never returns to 0 once a reader
\* has it, and a handle that called writeLock stays in writeLock forever without
\* acquiring: every execution of StarveSpec is one.
C17_WriterStarved ==
    /\ ~haveWriteLock[1]
    /\ ~(op[1] = "writeLock" /\ pc[1] = "notify")

C17_WritersCanStarve ==
    /\ [][Next]_vars
    /\ [][word >= 1 => word' >= 1]_vars
    /\ []C17_WriterStarved
    /\ <>[]C12_WriteLocking(1)
    /\ \A r \in StarveReaders : haveReadLock[r] ~> ~haveReadLock[r]
    /\ \A r \in StarveReaders : []<>haveReadLock[r]

\* The writer is asleep in writeLock on a count of 2 while one reader has just
\* given its hold back and the other still has its own.
C17_Witness ==
    \E r, g \in StarveReaders :
        /\ op[1] = "writeLock" /\ pc[1] = "asleep" /\ lockState[1] = 2
        /\ op[r] = "readUnlock" /\ pc[r] = "notify"
        /\ g # r /\ haveReadLock[g] /\ pc[g] = "idle"
        /\ word = 1

\* C15: the notify of writeLock is redundant.  From the initial state the lock
\* and its variant without that notify reach the same (word, flags) states, and
\* whether or not a returning writeLock wakes the sleepers, every writeLock and
\* readLock that got past its checks returns under the conditions of C8.  The
\* successor function the reachable sets are computed with is that of the
\* actions: each step of a handle is one of its successors, with the notify for
\* the code and without it for the variant, and each successor is a step.
C15_SameReachable ==
    Init => WordAndFlags(Reachable(State, TRUE)) = WordAndFlags(Reachable(State, FALSE))

C15_SuccessorsAreSteps ==
    accepting =>
        \A h \in 1..FairHandles :
            /\ \A t \in HandleNextIn(State, h, TRUE) : ENABLED (HandleNext(h) /\ State' = t)
            /\ \A t \in HandleNextIn(State, h, FALSE) :
                   ENABLED ((HandleNext(h) \/ writeLockNotify_NoNotify(h)) /\ State' = t)

C15_StepsAreSuccessors ==
    \A h \in 1..FairHandles :
        /\ HandleNext(h) => State' \in HandleNextIn(State, h, TRUE)
        /\ writeLockNotify_NoNotify(h) => State' \in HandleNextIn(State, h, FALSE)

C15_WriteLockNotifyRedundant ==
    /\ []C15_SameReachable
    /\ []C15_SuccessorsAreSteps
    /\ [][C15_StepsAreSuccessors]_vars
    /\ (<>~accepting) => \A h \in Handles : C8_Acquiring(h) ~> C8_Returned(h)

\* A writeLock has returned and holds the lock while a readLock that slept, was
\* woken and found the word at -1 again is asleep.
C15_Witness ==
    \E h, g \in Handles :
        /\ op[h] = "writeLock" /\ pc[h] = "idle" /\ outcome[h] = "ok" /\ haveWriteLock[h]
        /\ op[g] = "readLock" /\ pc[g] = "asleep"
        /\ word = WRITE_LOCKED

====
